---- MODULE Spec2Model ----
(***************************************************************************)
(* MultiModalityPerceiver (perceiver_pytorch/multi_modality_perceiver.py): *)
(* construction of the model (descriptor registry, max_modality_dim, layer *)
(* list with optional weight tying) and the forward pass (per-modality     *)
(* validation and fusion in sorted-name order, the attention stack, the    *)
(* output head).                                                           *)
(*                                                                         *)
(* Tensors are modelled by their shape; a fused tensor also carries, for   *)
(* every (batch, position) index, the layout of its feature vector: which  *)
(* features are raw channels, zero padding, positional encoding and        *)
(* modality tag, and the value of the padding and tag features.  The       *)
(* numerical values of the data, of the Fourier features and of the        *)
(* attention / feed-forward blocks are not modelled: a block application   *)
(* is recorded as the block instance that was applied.  Modality names are *)
(* strings, modelled as sequences of character codes so that sorted()      *)
(* is the lexicographic order of Python.  The optional mask is passed      *)
(* through to the cross-attention block unchanged and is left out.         *)
(***************************************************************************)
EXTENDS Integers, Sequences, FiniteSets, TLC

\* Bounds of the model.
MaxDepth == 3
MaxBatch == 2

----------------------------------------------------------------------------
\* Strings and sorted()

NameA  == <<1>>
NameAB == <<1, 2>>
NameB  == <<2>>
Names  == {NameA, NameAB, NameB}

RECURSIVE StrLess(_, _)
StrLess(s, t) ==
    IF t = <<>> THEN FALSE
    ELSE IF s = <<>> THEN TRUE
    ELSE IF Head(s) < Head(t) THEN TRUE
    ELSE IF Head(s) > Head(t) THEN FALSE
    ELSE StrLess(Tail(s), Tail(t))

RECURSIVE InsertSorted(_, _)
InsertSorted(n, sorted) ==
    IF sorted = <<>> THEN <<n>>
    ELSE IF StrLess(n, Head(sorted)) THEN <<n>> \o sorted
    ELSE <<Head(sorted)>> \o InsertSorted(n, Tail(sorted))

RECURSIVE SortedFrom(_, _)
SortedFrom(keys, acc) ==
    IF keys = <<>> THEN acc
    ELSE SortedFrom(Tail(keys), InsertSorted(Head(keys), acc))

\* A plausible slip: iterating the dictionary's keys in insertion order.
UnsortedKeys(keys) == keys

\* sorted(multi_modality_data.keys())
Sorted(keys) == SortedFrom(keys, <<>>)

----------------------------------------------------------------------------
\* InputModality

InputModality(name, input_channels, input_axis, num_freq_bands) ==
    [name |-> name, input_channels |-> input_channels, input_axis |-> input_axis,
     num_freq_bands |-> num_freq_bands, max_freq |-> 10, freq_base |-> 2]

input_dim(m) == m.input_axis * ((m.num_freq_bands * 2) + 1) + m.input_channels

ModA  == InputModality(NameA, 1, 1, 1)
ModA2 == InputModality(NameA, 2, 2, 0)
ModAB == InputModality(NameAB, 1, 1, 0)
ModB  == InputModality(NameB, 2, 2, 1)

\* The `modalities` arguments the model is constructed with.
Registries == { <<ModA>>, <<ModB, ModA>>, <<ModA, ModAB>>, <<ModA, ModA2>> }

----------------------------------------------------------------------------
\* __init__

\* {modality.name: modality for modality in modalities}: the last descriptor
\* of a name wins.
ModalityDict(mods) ==
    [n \in {mods[i].name : i \in DOMAIN mods} |->
        mods[CHOOSE i \in DOMAIN mods :
                /\ mods[i].name = n
                /\ \A j \in DOMAIN mods : mods[j].name = n => j <= i]]

modality_encoding_dim(mods) == Len(mods)

MaxInputDim(mods) ==
    CHOOSE d \in {input_dim(mods[i]) : i \in DOMAIN mods} :
        \A i \in DOMAIN mods : input_dim(mods[i]) <= d

MaxModalityDim(mods) == MaxInputDim(mods) + modality_encoding_dim(mods)

Kinds == {"cross_attn", "cross_ff", "latent_attn", "latent_ff"}

\* The value of an empty cache.
NoBlock == [kind |-> "None", made_at |-> -1]

\* A block instance built by one of the get_* lambdas in iteration i.
NewBlock(kind, i) == [kind |-> kind, made_at |-> i]

\* cache_fn: with _cache false the builder is called; with _cache true the
\* cached instance is returned, the first such call building and storing it.
CacheFn(cache, fresh, use_cache) ==
    IF ~use_cache THEN [value |-> fresh, cache |-> cache]
    ELSE IF cache # NoBlock THEN [value |-> cache, cache |-> cache]
    ELSE [value |-> fresh, cache |-> fresh]

\* A plausible slip: caching from the first repetition on.
ShouldCacheFromFirst(i, weight_tie_layers) == weight_tie_layers

ShouldCache(i, weight_tie_layers) == i > 0 /\ weight_tie_layers

MakeLayer(i, weight_tie_layers, caches) ==
    LET got == [k \in Kinds |->
                  CacheFn(caches[k], NewBlock(k, i), ShouldCache(i, weight_tie_layers))]
    IN  [layer |-> [k \in Kinds |-> got[k].value],
         caches |-> [k \in Kinds |-> got[k].cache]]

RECURSIVE BuildLayers(_, _, _, _)
BuildLayers(i, depth, weight_tie_layers, caches) ==
    IF i >= depth THEN <<>>
    ELSE LET made == MakeLayer(i, weight_tie_layers, caches)
         IN  <<made.layer>> \o BuildLayers(i + 1, depth, weight_tie_layers, made.caches)

----------------------------------------------------------------------------
\* Tensors

\* Sizes of the first, second, ... middle axis of the submitted tensors.
AxisLens == <<2, 3>>

Channels == {ModA.input_channels, ModB.input_channels}

\* A tensor of shape (batch, axis_1, ..., axis_n, channels).
Tensors ==
    { [shape |-> <<b>> \o SubSeq(AxisLens, 1, n) \o <<c>>] :
        b \in 1..MaxBatch, n \in 1..Len(AxisLens), c \in Channels }

Entries == { [name |-> n, data |-> t] : n \in Names, t \in Tensors }

\* The dictionaries a forward call is given, as their items in insertion
\* order: no key, one key, or two different keys.
CallInputs ==
    {<<>>} \cup { <<e>> : e \in Entries }
           \cup { p \in Entries \X Entries : p[1].name # p[2].name }

Keys(mmd) == [i \in DOMAIN mmd |-> mmd[i].name]

\* multi_modality_data[modality_name]
Item(mmd, name) == mmd[CHOOSE i \in DOMAIN mmd : mmd[i].name = name].data

RECURSIVE Prod(_)
Prod(sizes) == IF sizes = <<>> THEN 1 ELSE Head(sizes) * Prod(Tail(sizes))

Lead(shape) == SubSeq(shape, 1, Len(shape) - 1)
Width(shape) == shape[Len(shape)]

\* b, *axis, _ = data.shape
BatchOf(t) == t.shape[1]
AxisOf(t)  == SubSeq(t.shape, 2, Len(t.shape) - 1)

\* A tensor all of whose feature vectors are `width` copies of one feature.
Filled(lead, width, feature) ==
    [shape |-> lead \o <<width>>,
     rows  |-> [p \in 1..Prod(lead) |-> [i \in 1..width |-> feature]]]

\* fourier_encode: 2 * num_bands + 1 features per coordinate.
FourierWidth(num_bands) == 2 * num_bands + 1

\* enc_pos: the encodings of the len(axis) coordinates of a position, flattened
\* and repeated over the batch.
EncPos(b, axis, modality) ==
    Filled(<<b>> \o axis, Len(axis) * FourierWidth(modality.num_freq_bands), "pos")

\* A plausible slip: the tag of the first modality for every modality.
modality_encoding_first(batch_size, axes, modality_index, num_modalities) ==
    [shape |-> <<batch_size>> \o axes \o <<num_modalities>>,
     rows  |-> [p \in 1..Prod(<<batch_size>> \o axes) |->
                 [j \in 1..num_modalities |-> IF j = 1 THEN "tag1" ELSE "tag0"]]]

\* torch.eye(num_modalities)[modality_index], expanded over batch and axes.
modality_encoding(batch_size, axes, modality_index, num_modalities) ==
    LET one_hot == [j \in 1..num_modalities |->
                      IF j = modality_index + 1 THEN "tag1" ELSE "tag0"]
    IN  [shape |-> <<batch_size>> \o axes \o <<num_modalities>>,
         rows  |-> [p \in 1..Prod(<<batch_size>> \o axes) |-> one_hot]]

\* torch.cat(to_concat, dim=-1) of four tensors with the same leading axes.
CatLast(t1, t2, t3, t4) ==
    [shape |-> Lead(t1.shape) \o
               <<Width(t1.shape) + Width(t2.shape) + Width(t3.shape) + Width(t4.shape)>>,
     rows  |-> [p \in DOMAIN t1.rows |->
                  t1.rows[p] \o t2.rows[p] \o t3.rows[p] \o t4.rows[p]]]

\* rearrange(data, 'b ... d -> b (...) d')
Flatten(t) ==
    [shape |-> <<t.shape[1], Prod(SubSeq(t.shape, 2, Len(t.shape) - 1)), Width(t.shape)>>,
     rows  |-> t.rows]

RECURSIVE TotalPositions(_)
TotalPositions(ts) ==
    IF ts = <<>> THEN 0 ELSE Head(ts).shape[2] + TotalPositions(Tail(ts))

RECURSIVE RowAt(_, _, _)
RowAt(ts, i, q) ==
    IF q <= Head(ts).shape[2]
    THEN Head(ts).rows[(i - 1) * Head(ts).shape[2] + q]
    ELSE RowAt(Tail(ts), i, q - Head(ts).shape[2])

\* torch.cat refuses tensors whose other axes differ.
CanCat1(ts) ==
    \A i, j \in DOMAIN ts :
        /\ ts[i].shape[1] = ts[j].shape[1]
        /\ ts[i].shape[3] = ts[j].shape[3]

\* torch.cat(linearized_data, dim=1)
Cat1(ts) ==
    LET n == TotalPositions(ts)
        b == ts[1].shape[1]
    IN  [shape |-> <<b, n, ts[1].shape[3]>>,
         rows  |-> [p \in 1..(b * n) |-> RowAt(ts, ((p - 1) \div n) + 1, ((p - 1) % n) + 1)]]

----------------------------------------------------------------------------
VARIABLES
    args,               \* the arguments __init__ was called with
    modalities,         \* self.modalities
    max_modality_dim,   \* self.max_modality_dim
    latents,            \* self.latents
    layers,             \* self.layers
    pc,                 \* where the forward call is
    multi_modality_data,
    order,              \* sorted(multi_modality_data.keys())
    modality_index,
    num_modalities,
    batch_sizes,
    linearized_data,
    stdout,             \* what the call has printed
    x,
    data,               \* the concatenated context
    layer_index,        \* the layers the for loop has been through
    loop_vars,          \* cross_attn, cross_ff, latent_attn, latent_ff
    err,                \* the exception raised
    out                 \* the value returned

model_vars == <<args, modalities, max_modality_dim, latents, layers>>
call_vars  == <<multi_modality_data, order, modality_index, num_modalities, batch_sizes,
                linearized_data, stdout, x, data, layer_index, loop_vars, err, out>>
vars == <<model_vars, pc, call_vars>>

NoError  == [type |-> "None", line |-> 0, message |-> "", key |-> <<>>]
NoTensor == [shape |-> <<>>, rows |-> <<>>]
NoX      == [seed |-> 0, b |-> 0, applied |-> <<>>]
NoLayer  == [k \in Kinds |-> NoBlock]
NoOut    == [shape |-> <<>>, x |-> NoX, context |-> NoTensor]

Idle ==
    /\ pc = "idle"
    /\ multi_modality_data = <<>>
    /\ order = <<>>
    /\ modality_index = 0
    /\ num_modalities = 0
    /\ batch_sizes = {}
    /\ linearized_data = <<>>
    /\ stdout = <<>>
    /\ x = NoX
    /\ data = NoTensor
    /\ layer_index = 0
    /\ loop_vars = NoLayer
    /\ err = NoError
    /\ out = NoOut

Init ==
    /\ \E mods \in Registries, depth \in 0..MaxDepth, weight_tie_layers \in BOOLEAN :
          /\ args = [modalities |-> mods, depth |-> depth,
                     weight_tie_layers |-> weight_tie_layers, num_classes |-> 1000]
          /\ modalities = ModalityDict(mods)
          /\ max_modality_dim = MaxModalityDim(mods)
          /\ latents = [shape |-> <<512, 512>>, version |-> 0]
          /\ layers = BuildLayers(0, depth, weight_tie_layers, NoLayer)
    /\ Idle

----------------------------------------------------------------------------
\* forward: the loop over the sorted modality names

\* A plausible slip: padding up to the width without the tag.
padding_size_untagged(modality, n) == max_modality_dim - input_dim(modality)

\* padding_size = self.max_modality_dim - modality.input_dim - num_modalities
padding_size(modality, n) == max_modality_dim - input_dim(modality) - n

\* to_concat = (data, padding, enc_pos, modality_encodings), concatenated on the
\* feature axis and flattened.
Fused(t, modality, index, n) ==
    LET b    == BatchOf(t)
        axis == AxisOf(t)
    IN  Flatten(CatLast(Filled(Lead(t.shape), Width(t.shape), "data"),
                        Filled(Lead(t.shape), padding_size(modality, n), "pad0"),
                        EncPos(b, axis, modality),
                        modality_encoding(b, axis, index, n)))

modality_name == order[modality_index + 1]
InLoop  == pc = "loop" /\ modality_index < Len(order)
Known   == modality_name \in DOMAIN modalities
\* A plausible slip: <= for ==.
AxisAtMost == Len(AxisOf(Item(multi_modality_data, modality_name)))
                 <= modalities[modality_name].input_axis

\* len(axis) == modality.input_axis
AxisOk  == Len(AxisOf(Item(multi_modality_data, modality_name)))
              = modalities[modality_name].input_axis
BatchOk == Cardinality(batch_sizes \cup {BatchOf(Item(multi_modality_data, modality_name))}) = 1

Raise(e) == pc' = "raised" /\ err' = e

Forward(mmd) ==
    /\ pc = "idle"
    /\ pc' = "loop"
    /\ multi_modality_data' = mmd
    /\ batch_sizes' = {}
    /\ num_modalities' = Len(mmd)
    /\ linearized_data' = <<>>
    /\ order' = Sorted(Keys(mmd))
    /\ modality_index' = 0
    /\ UNCHANGED <<model_vars, stdout, x, data, layer_index, loop_vars, err, out>>

\* modality = self.modalities[modality_name]
LookupFail ==
    /\ InLoop
    /\ ~Known
    /\ Raise([type |-> "KeyError", line |-> 118, message |-> "", key |-> modality_name])
    /\ UNCHANGED <<model_vars, multi_modality_data, order, modality_index, num_modalities,
                   batch_sizes, linearized_data, stdout, x, data, layer_index, loop_vars, out>>

\* assert len(axis) == modality.input_axis
AxisAssertFail ==
    /\ InLoop
    /\ Known
    /\ ~AxisOk
    /\ Raise([type |-> "AssertionError", line |-> 120,
              message |-> "input data must have the right number of axis", key |-> <<>>])
    /\ UNCHANGED <<model_vars, multi_modality_data, order, modality_index, num_modalities,
                   batch_sizes, linearized_data, stdout, x, data, layer_index, loop_vars, out>>

\* batch_sizes.add(b); assert len(batch_sizes) == 1
BatchAssertFail ==
    /\ InLoop
    /\ Known
    /\ AxisOk
    /\ ~BatchOk
    /\ batch_sizes' = batch_sizes \cup {BatchOf(Item(multi_modality_data, modality_name))}
    /\ Raise([type |-> "AssertionError", line |-> 122,
              message |-> "batch size must be the same across all modalities", key |-> <<>>])
    /\ UNCHANGED <<model_vars, multi_modality_data, order, modality_index, num_modalities,
                   linearized_data, stdout, x, data, layer_index, loop_vars, out>>

\* torch.zeros(size=data.size()[0:-1] + (padding_size,)) with padding_size < 0:
\* the size has been printed, and torch refuses the negative dimension.
NegativePadding ==
    /\ InLoop
    /\ Known
    /\ AxisOk
    /\ BatchOk
    /\ padding_size(modalities[modality_name], num_modalities) < 0
    /\ batch_sizes' = batch_sizes \cup {BatchOf(Item(multi_modality_data, modality_name))}
    /\ stdout' = Append(stdout, [padding_size |->
                                    padding_size(modalities[modality_name], num_modalities),
                                 modality |-> modality_name])
    /\ Raise([type |-> "RuntimeError", line |-> 135,
              message |-> "Trying to create tensor with negative dimension", key |-> <<>>])
    /\ UNCHANGED <<model_vars, multi_modality_data, order, modality_index, num_modalities,
                   linearized_data, x, data, layer_index, loop_vars, out>>

\* One iteration that goes through: the modality is encoded, padded, tagged,
\* flattened and appended.
FuseModality ==
    /\ InLoop
    /\ Known
    /\ AxisOk
    /\ BatchOk
    /\ padding_size(modalities[modality_name], num_modalities) >= 0
    /\ batch_sizes' = batch_sizes \cup {BatchOf(Item(multi_modality_data, modality_name))}
    /\ stdout' = Append(stdout, [padding_size |->
                                    padding_size(modalities[modality_name], num_modalities),
                                 modality |-> modality_name])
    /\ linearized_data' = Append(linearized_data,
                                 Fused(Item(multi_modality_data, modality_name),
                                       modalities[modality_name], modality_index,
                                       num_modalities))
    /\ modality_index' = modality_index + 1
    /\ UNCHANGED <<model_vars, pc, multi_modality_data, order, num_modalities,
                   x, data, layer_index, loop_vars, err, out>>

----------------------------------------------------------------------------
\* forward: after the loop

AfterLoop == pc = "loop" /\ modality_index = Len(order)

\* b = batch_sizes.pop() on the empty set (an empty dictionary was given)
PopFail ==
    /\ AfterLoop
    /\ batch_sizes = {}
    /\ Raise([type |-> "KeyError", line |-> 144, message |-> "pop from an empty set",
              key |-> <<>>])
    /\ UNCHANGED <<model_vars, multi_modality_data, order, modality_index, num_modalities,
                   batch_sizes, linearized_data, stdout, x, data, layer_index, loop_vars, out>>

\* x = repeat(self.latents, 'n d -> b n d', b=b)
Repeat(seed, b) == [seed |-> seed, b |-> b, applied |-> <<>>]

\* torch.cat(linearized_data, dim=1) of sequences of different widths
CatFail ==
    /\ AfterLoop
    /\ batch_sizes # {}
    /\ ~CanCat1(linearized_data)
    /\ batch_sizes' = {}
    /\ x' = Repeat(latents, CHOOSE b \in batch_sizes : TRUE)
    /\ Raise([type |-> "RuntimeError", line |-> 148,
              message |-> "Sizes of tensors must match except in dimension 1", key |-> <<>>])
    /\ UNCHANGED <<model_vars, multi_modality_data, order, modality_index, num_modalities,
                   linearized_data, stdout, data, layer_index, loop_vars, out>>

Concatenate ==
    /\ AfterLoop
    /\ batch_sizes # {}
    /\ CanCat1(linearized_data)
    /\ batch_sizes' = {}
    /\ x' = Repeat(latents, CHOOSE b \in batch_sizes : TRUE)
    /\ data' = Cat1(linearized_data)
    /\ layer_index' = 0
    /\ pc' = "layers"
    /\ UNCHANGED <<model_vars, multi_modality_data, order, modality_index, num_modalities,
                   linearized_data, stdout, loop_vars, err, out>>

----------------------------------------------------------------------------
\* forward: the attention stack and the output head

\* block(x) + x
Apply(xv, block) == [xv EXCEPT !.applied = Append(@, block)]

\* The cross-attention block is built for a context of width input_dim
\* (context_dim=input_dim) and refuses any other.
ContextFits(context) == Width(context.shape) = max_modality_dim

\* A plausible slip: x += cross_attn(...), which writes through to the seed.
CrossAttnInPlace ==
    /\ pc = "layers"
    /\ layer_index < Len(layers)
    /\ ContextFits(data)
    /\ loop_vars' = layers[layer_index + 1]
    /\ x' = Apply(x, layers[layer_index + 1].cross_attn)
    /\ latents' = [latents EXCEPT !.version = @ + 1]
    /\ layer_index' = layer_index + 1
    /\ UNCHANGED <<args, modalities, max_modality_dim, layers, pc, multi_modality_data,
                   order, modality_index, num_modalities, batch_sizes, linearized_data,
                   stdout, data, err, out>>

\* for cross_attn, cross_ff, latent_attn, latent_ff in self.layers:
\*     x = cross_attn(x, context=data, mask=mask) + x
CrossAttn ==
    /\ pc = "layers"
    /\ layer_index < Len(layers)
    /\ ContextFits(data)
    /\ loop_vars' = layers[layer_index + 1]
    /\ x' = Apply(x, layers[layer_index + 1].cross_attn)
    /\ layer_index' = layer_index + 1
    /\ UNCHANGED <<model_vars, pc, multi_modality_data, order, modality_index,
                   num_modalities, batch_sizes, linearized_data, stdout, data, err, out>>

CrossAttnFail ==
    /\ pc = "layers"
    /\ layer_index < Len(layers)
    /\ ~ContextFits(data)
    /\ loop_vars' = layers[layer_index + 1]
    /\ Raise([type |-> "RuntimeError", line |-> 151,
              message |-> "context width differs from context_dim", key |-> <<>>])
    /\ UNCHANGED <<model_vars, multi_modality_data, order, modality_index, num_modalities,
                   batch_sizes, linearized_data, stdout, x, data, layer_index, out>>

\* x = cross_ff(x) + x with depth = 0: the loop never bound cross_ff
CrossFFUnbound ==
    /\ pc = "layers"
    /\ layer_index = Len(layers)
    /\ Len(layers) = 0
    /\ Raise([type |-> "UnboundLocalError", line |-> 152, message |-> "cross_ff",
              key |-> <<>>])
    /\ UNCHANGED <<model_vars, multi_modality_data, order, modality_index, num_modalities,
                   batch_sizes, linearized_data, stdout, x, data, layer_index, loop_vars, out>>

\* x = cross_ff(x) + x, after the loop
CrossFF ==
    /\ pc = "layers"
    /\ layer_index = Len(layers)
    /\ Len(layers) > 0
    /\ x' = Apply(x, loop_vars.cross_ff)
    /\ pc' = "latent_attn"
    /\ UNCHANGED <<model_vars, multi_modality_data, order, modality_index, num_modalities,
                   batch_sizes, linearized_data, stdout, data, layer_index, loop_vars, err,
                   out>>

\* x = latent_attn(x) + x
LatentAttn ==
    /\ pc = "latent_attn"
    /\ x' = Apply(x, loop_vars.latent_attn)
    /\ pc' = "latent_ff"
    /\ UNCHANGED <<model_vars, multi_modality_data, order, modality_index, num_modalities,
                   batch_sizes, linearized_data, stdout, data, layer_index, loop_vars, err,
                   out>>

\* x = latent_ff(x) + x
LatentFF ==
    /\ pc = "latent_ff"
    /\ x' = Apply(x, loop_vars.latent_ff)
    /\ pc' = "head"
    /\ UNCHANGED <<model_vars, multi_modality_data, order, modality_index, num_modalities,
                   batch_sizes, linearized_data, stdout, data, layer_index, loop_vars, err,
                   out>>

\* x = x.mean(dim=-2); return self.to_logits(x)
ToLogits ==
    /\ pc = "head"
    /\ out' = [shape |-> <<x.b, args.num_classes>>, x |-> x, context |-> data]
    /\ pc' = "done"
    /\ UNCHANGED <<model_vars, multi_modality_data, order, modality_index, num_modalities,
                   batch_sizes, linearized_data, stdout, x, data, layer_index, loop_vars,
                   err>>

\* The call is over (a value returned or an exception raised): its locals go.
Return ==
    /\ pc \in {"done", "raised"}
    /\ pc' = "idle"
    /\ multi_modality_data' = <<>>
    /\ order' = <<>>
    /\ modality_index' = 0
    /\ num_modalities' = 0
    /\ batch_sizes' = {}
    /\ linearized_data' = <<>>
    /\ stdout' = <<>>
    /\ x' = NoX
    /\ data' = NoTensor
    /\ layer_index' = 0
    /\ loop_vars' = NoLayer
    /\ err' = NoError
    /\ out' = NoOut
    /\ UNCHANGED model_vars

Next ==
    \/ \E mmd \in CallInputs : Forward(mmd)
    \/ LookupFail
    \/ AxisAssertFail
    \/ BatchAssertFail
    \/ NegativePadding
    \/ FuseModality
    \/ PopFail
    \/ CatFail
    \/ Concatenate
    \/ CrossAttn
    \/ CrossAttnFail
    \/ CrossFFUnbound
    \/ CrossFF
    \/ LatentAttn
    \/ LatentFF
    \/ ToLogits
    \/ Return

Spec == Init /\ [][Next]_vars

----------------------------------------------------------------------------
\* Vocabulary of the properties

\* The call has gone through the loop and the concatenation.
InStack == pc \in {"layers", "latent_attn", "latent_ff", "head", "done"}

Submitted == {multi_modality_data[i].name : i \in DOMAIN multi_modality_data}

AllKnown == Submitted \subseteq DOMAIN modalities

\* The registered modalities of the call whose tensor has the wrong number of
\* middle axes.
WrongAxis ==
    {n \in Submitted \cap DOMAIN modalities :
        Len(AxisOf(Item(multi_modality_data, n))) # modalities[n].input_axis}

SameBatch ==
    \A i, j \in DOMAIN multi_modality_data :
        BatchOf(multi_modality_data[i].data) = BatchOf(multi_modality_data[j].data)

\* Every submitted tensor has the channels its descriptor registers.
ChannelsConform ==
    \A n \in Submitted \cap DOMAIN modalities :
        Width(Item(multi_modality_data, n).shape) = modalities[n].input_channels

RECURSIVE SumPositions(_, _)
SumPositions(mmd, names) ==
    IF names = <<>> THEN 0
    ELSE Prod(AxisOf(Item(mmd, Head(names)))) + SumPositions(mmd, Tail(names))

\* The failure of the lookup of a submitted name among the registered
\* descriptors: the code's form of a configuration error naming the modality.
IsUnknownModalityError(e) == e.type = "KeyError" /\ e.line = 118

OneHot(index, n) == [j \in 1..n |-> IF j = index + 1 THEN "tag1" ELSE "tag0"]

\* The four stages of every layer, layer after layer.
RECURSIVE NestedStages(_)
NestedStages(ls) ==
    IF ls = <<>> THEN <<>>
    ELSE <<Head(ls).cross_attn, Head(ls).cross_ff, Head(ls).latent_attn, Head(ls).latent_ff>>
         \o NestedStages(Tail(ls))

\* The context forward builds from a dictionary given as its items in
\* insertion order: the loop of FuseModality over its sorted keys, and the
\* concatenation.
ContextOf(mmd) ==
    Cat1([i \in 1..Len(mmd) |->
            Fused(Item(mmd, Sorted(Keys(mmd))[i]), modalities[Sorted(Keys(mmd))[i]],
                  i - 1, Len(mmd))])

\* The same items inserted in another order.
Reorderings(mmd) ==
    { [i \in DOMAIN mmd |-> mmd[f[i]]] :
        f \in { g \in [DOMAIN mmd -> DOMAIN mmd] :
                  \A i, j \in DOMAIN mmd : i # j => g[i] # g[j] } }

----------------------------------------------------------------------------
\* C1: with depth d >= 1, a forward call that returns has applied to the
\* latent state, for every layer i = 0..d-1 in turn, the layer's cross
\* attention, cross feed-forward, latent attention and latent feed-forward, so
\* each stage d times.  (The code runs only the cross attention in the loop and
\* the other three stages once, after it.)
C1_EveryRepetitionRunsFourStages ==
    (pc = "done" /\ args.depth >= 1) => out.x.applied = NestedStages(layers)

\* C2: with weight tying and depth >= 2, repetitions 2..d hold the same
\* instance of each block kind, which is not repetition 1's; without weight
\* tying all repetitions hold pairwise different instances.
C2_WeightTying ==
    LET d == Len(layers)
    IN  /\ d = args.depth
        /\ (args.weight_tie_layers /\ d >= 2) =>
              \A k \in Kinds :
                 /\ \A i, j \in 2..d : layers[i][k] = layers[j][k]
                 /\ \A i \in 2..d : layers[i][k] # layers[1][k]
        /\ ~args.weight_tie_layers =>
              \A k \in Kinds : \A i, j \in 1..d : i # j => layers[i][k] # layers[j][k]

C2_Witness ==
    /\ args.weight_tie_layers
    /\ Len(layers) >= 3
    /\ layers[2].cross_ff = layers[3].cross_ff

\* C3 as claimed: in every call that passes validation each fused sequence has
\* width max_modality_dim, and the context has shape
\* (batch, total positions, max_modality_dim).
C3_FusedWidthAnyChannels ==
    InStack =>
       /\ \A i \in DOMAIN linearized_data : linearized_data[i].shape[3] = max_modality_dim
       /\ data.shape = <<x.b, SumPositions(multi_modality_data, order), max_modality_dim>>

\* C3, amended: the same, for the calls in which every submitted tensor has
\* the number of channels its descriptor registers (the code never compares
\* them); such a call is not stopped by the concatenation or by the cross
\* attention.
C3_FusedWidth ==
    ChannelsConform =>
       /\ InStack =>
            /\ \A i \in DOMAIN linearized_data :
                  /\ linearized_data[i].shape =
                        <<x.b, Prod(AxisOf(Item(multi_modality_data, order[i]))),
                          max_modality_dim>>
                  /\ \A p \in DOMAIN linearized_data[i].rows :
                        Len(linearized_data[i].rows[p]) = max_modality_dim
            /\ data.shape = <<x.b, SumPositions(multi_modality_data, order), max_modality_dim>>
            /\ \A p \in DOMAIN data.rows : Len(data.rows[p]) = max_modality_dim
       /\ pc = "raised" => err.line \notin {148, 151}

C3_Witness ==
    /\ pc = "done"
    /\ ChannelsConform
    /\ Len(linearized_data) = 2
    /\ \E i \in DOMAIN stdout : stdout[i].padding_size > 0

\* C4: no call asks for a zero padding of negative width: a negative
\* padding_size is rejected before torch.zeros is reached.  (The sizes a call
\* has printed are those it goes on to pass to torch.zeros.)
C4_NoNegativePadding ==
    \A i \in DOMAIN stdout : stdout[i].padding_size >= 0

\* C5: a call given a key that is no registered modality, and otherwise
\* well-formed tensors, fails with the error that names the unknown modality.
C5_UnknownModalityNamed ==
    (/\ pc \in {"done", "raised"}
     /\ ~AllKnown
     /\ WrongAxis = {}
     /\ SameBatch)
    => /\ pc = "raised"
       /\ IsUnknownModalityError(err)
       /\ err.key \in Submitted \ DOMAIN modalities

C7_InsertionOrderIrrelevant ==
    /\ InStack =>
          \A other \in Reorderings(multi_modality_data) : ContextOf(other) = data
    /\ pc = "done" =>
          \A other \in Reorderings(multi_modality_data) :
             /\ out.context = ContextOf(other)
             /\ out.shape = <<BatchOf(other[1].data), args.num_classes>>

C7_Witness ==
    /\ pc = "done"
    /\ Len(multi_modality_data) = 2
    /\ Keys(multi_modality_data) # order

\* C8: no step of a forward call, returning or raising, changes the latent
\* seed, the registered descriptors, max_modality_dim or the layers, and the
\* latent state of every call starts as the seed repeated over the batch.
C8_ForwardLeavesModel ==
    [][/\ model_vars' = model_vars
       /\ (x = NoX /\ x' # NoX) =>
             /\ x'.seed = latents
             /\ x'.applied = <<>>
             /\ \A i \in DOMAIN multi_modality_data :
                   BatchOf(multi_modality_data[i].data) = x'.b]_vars

C8_Witness ==
    /\ pc = "done"
    /\ Len(out.x.applied) >= 2
    /\ out.x.seed = latents

\* C9: the modality at place i of the sorted submitted names carries, at every
\* batch element and position, as the last k features, the one-hot tag of
\* length k with its 1 at i; two modalities of a call carry different tags.
C9_SortedOneHotTag ==
    /\ \A i, j \in DOMAIN order : i < j => StrLess(order[i], order[j])
    /\ {order[i] : i \in DOMAIN order} = Submitted
    /\ \A i \in DOMAIN linearized_data :
          /\ stdout[i].modality = order[i]
          /\ \A p \in DOMAIN linearized_data[i].rows :
                LET row == linearized_data[i].rows[p]
                IN  /\ Len(row) >= num_modalities
                    /\ SubSeq(row, Len(row) - num_modalities + 1, Len(row))
                          = OneHot(i - 1, num_modalities)
                    /\ \A f \in 1..(Len(row) - num_modalities) :
                          row[f] \notin {"tag0", "tag1"}
    /\ \A i, j \in DOMAIN linearized_data :
          i # j => \A p \in DOMAIN linearized_data[i].rows,
                      q \in DOMAIN linearized_data[j].rows :
                      SubSeq(linearized_data[i].rows[p],
                             Len(linearized_data[i].rows[p]) - num_modalities + 1,
                             Len(linearized_data[i].rows[p]))
                      # SubSeq(linearized_data[j].rows[q],
                               Len(linearized_data[j].rows[q]) - num_modalities + 1,
                               Len(linearized_data[j].rows[q]))

C9_Witness ==
    /\ pc = "done"
    /\ Len(linearized_data) = 2
    /\ Keys(multi_modality_data) # order

\* C10: a call that is rejected (unknown name, wrong axis count, batch sizes
\* that differ) has encoded, padded, tagged and fused none of its modalities.
C10_NoPartialComputation ==
    (pc = "raised" /\ err.line \in {118, 120, 122}) =>
       /\ linearized_data = <<>>
       /\ stdout = <<>>

====
